---- MODULE Spec2Model ----
(***************************************************************************)
(* Model of src/views/textbox.py (classes Textbox, TextLineNumbers): the   *)
(* snapshot stack used for undo/redo, the changed_since_saved flag, the    *)
(* <Key> handler, the functions that read and change the text, the proxy   *)
(* of the widget command and the redraw of the line numbers.               *)
(*                                                                         *)
(* Strings are Python strings.  The Tk text widget always holds a final    *)
(* newline, so the widget content is the user's text followed by "\n".     *)
(* Python indexes the deque from 0, TLA+ sequences from 1: stack[i] of the *)
(* source is stack[i + 1] here.                                            *)
(***************************************************************************)
EXTENDS Integers, Sequences, FiniteSets, TLC

VARIABLES
    max_undo,             \* cf.max_undo, the deque's maxlen (line 36)
    stack,                \* self.stack (line 36)
    stackcursor,          \* self.stackcursor (line 37)
    content,              \* what the Text widget holds, final newline included
    selection,            \* the ranges of the sel tag, as tag_ranges gives them
    changed_since_saved,  \* self.changed_since_saved (line 33)
    file_name,            \* self._file_name (line 31)
    tk_name,              \* self.tk_name (line 32)
    tab_text,             \* the text of the tab, set by tabs.set_properties and tabs.tab
    set_properties_calls, \* how many times tabs.set_properties was invoked
    after_pending,        \* update_pos callbacks scheduled by after() and not yet run
    recorded,             \* history: every text handed to stack.append, in order
    saves,                \* history: how many save acknowledgements happened
    last,                 \* history: the last operation and the exception its caller got
    enable_syntax_highlighting, \* cf.enable_syntax_highlighting (lines 49, 173)
    dev_mode,             \* cf.dev_mode (line 282)
    keys,                 \* history: how many <Key> events were handled
    pos_updates,          \* history: how many times footer.update_pos has run
    syntax_calls,         \* history: calls of syntax.tagHighlight and syntax.scan
    raw,                  \* history: the last raw operation the proxy handled
    raw_calls,            \* history: how many operations callers outside the class sent
    calls,                \* history: calls of the functions of the class but undo and redo
    widget_ops,           \* how many operations the original widget has executed
    change_queue,         \* <<Change>> events generated with when="tail", not yet delivered
    view,                 \* the document as the widget lays it out, and the window on it
    redraw_pc,            \* where TextLineNumbers.redraw is: "idle" or "loop"
    redraw_i,             \* the index i of redraw's loop
    labels,               \* the items of the line-number canvas, in creation order
    redraws               \* history: the redraws so far, each with the event it served

histVars  == <<max_undo, stack, stackcursor, content, recorded>>
dirtyVars == <<changed_since_saved, file_name, tk_name, tab_text,
               set_properties_calls, saves>>
cfgVars   == <<enable_syntax_highlighting, dev_mode>>
keyVars   == <<keys, pos_updates, syntax_calls, calls>>
proxyVars == <<raw, raw_calls, widget_ops, change_queue, selection>>
redrawVars == <<view, redraw_pc, redraw_i, labels, redraws>>
vars == <<max_undo, stack, stackcursor, content, changed_since_saved, file_name,
          tk_name, tab_text, set_properties_calls, after_pending, recorded, saves, last,
          cfgVars, keyVars, proxyVars, redrawVars>>

(***************************************************************************)
(* Bounds of the model and constants of the program.                       *)
(***************************************************************************)
\* The capacities cf.max_undo is configured with: small ones, the default
\* 10 (the one the literal 9 of stackify/redo fits) and one above it.
Capacities == {1, 2, 3, 10, 11}
\* How many snapshots are recorded in one run.
MaxRecords == 11
\* How many <Key> events the widget gets in one run.
MaxKeys == 2
\* How many events and calls from outside (keys, <Configure> events, save
\* acknowledgements, raw operations, calls of the functions of the class
\* other than undo and redo) there are in one run in which any of them can
\* come next.
MaxEvents == 2
\* How many external save acknowledgements happen in one run.
MaxSaves == 1
\* How many operations callers outside the class send to the widget
\* command in one run.
MaxOps == 2
\* How many <Configure> events the widget gets in one run.
MaxConfigures == 1
\* The most lines the text widget shows at once.
MaxHeight == 2
\* The words raw operations are made of when the notification test is
\* tried on every operation of up to three words.
Words == {"insert", "replace", "delete", "mark", "set", "xview", "yview",
          "moveto", "scroll", "index"}
RawArgs == UNION {[1..n -> Words] : n \in 1..3}
\* The raw operations sent to the widget when the queue and the redraw are
\* followed: one that adds a line, one that scrolls to it and one the
\* notification test rejects.
SampleOps == {<<"insert", "insert", "\n">>, <<"yview", "scroll", "1", "units">>,
              <<"mark", "set", "current", "1.0">>}
\* pady of _make_text_area, border of super().__init__, and the highlight
\* thickness Tk gives a text widget when none is configured.
pady == 5
border == 0
highlightthickness == 1
\* The height of a line of the widget's font, in pixels.
LinePx == 17
\* The length of the one long line of Document.
LongLine == 201
\* How many characters of a line the window has room for: the widget is
\* made without a width (line 22), so it asks for Tk's 80.
WindowChars == 80
\* The last line that can be the first visible one: Tk does not scroll the
\* last line of the document off the window's end.
MaxTop(nlines, height) == IF nlines - height + 1 > 1 THEN nlines - height + 1 ELSE 1
\* s written n times.
RECURSIVE Rep(_, _)
Rep(s, n) ==
    IF n = 0
    THEN ""
    ELSE IF n % 2 = 0
    THEN LET h == Rep(s, n \div 2) IN h \o h
    ELSE Rep(s, n - 1) \o s

\* The text a caller loads to have line numbers of four and of five digits:
\* 10000 lines, all empty but line 9998.
Document == Rep("\n", 9997) \o Rep("x", LongLine) \o Rep("\n", 2)
\* The index of the long line of Document.
FarIndex == "9998.0"
\* The operations a caller sends, in this order, to load Document, bring
\* its long line to the top of the window, scroll halfway along it and
\* scroll down a line.
ViewScript ==
    <<<<"insert", "insert", Document>>, <<"yview", FarIndex>>,
      <<"xview", "moveto", "0.5">>, <<"yview", "scroll", "1", "units">>>>
\* The window of a new widget: an empty document, one line shown. A view
\* is a document as the widget lays it out and the window on it: the number
\* of lines, the lines that are not empty with their lengths (lens, pairs
\* of a line number and a length), the first visible line, the number of
\* lines and of characters the window has room for, the height of a line in
\* pixels and the number of characters scrolled off to the left (wrap is
\* 'none', line 22).
NewView == [nlines |-> 1, top |-> 1, height |-> 1, width |-> WindowChars,
            px |-> LinePx, left |-> 0, lens |-> {}]
\* The literal 9 of stackify and redo.
CursorCap == 9
\* The event.state check_on_key compares with: "when no modifier keys are
\* pressed" (its docstring). event.state is the modifier mask of X: Shift
\* is 1, Control 4, Alt (Mod1) 8 and Num Lock (Mod2) 16, so 16 is the state
\* of a key pressed alone while Num Lock is on.
PlainState == 16
\* The <Key> events: the key a with Num Lock on and with Num Lock off,
\* Shift with the semicolon key (a colon), the Right arrow and Control with
\* e (the end of the line). char is event.char, "" for the arrow and the
\* control character 5, written out, for Control with e. None of them moves
\* the insert mark back, so the insert mark is at the end of the text in
\* every state.
KeyEvents ==
    {[keysym |-> "a", state |-> 16, char |-> "a"],
     [keysym |-> "a", state |-> 0, char |-> "a"],
     [keysym |-> "colon", state |-> 17, char |-> ":"],
     [keysym |-> "Right", state |-> 16, char |-> ""],
     [keysym |-> "e", state |-> 20, char |-> "\\x05"]}
\* The keys pressed when the snapshot stack is followed over long runs.
HistoryKeys ==
    {e \in KeyEvents : e.keysym \in {"a", "Right"} /\ e.state = PlainState}
\* The keys the Text class binding <Key> inserts the character of.
Printing(e) == e.keysym \in {"a", "colon"}
\* cf.new_file_name
new_file_name == "new"
\* What set_meta is called with as file_name: "" when it is not given.
FileNames == {"", "x.py"}
\* The name of the tab of this Textbox: the frame given to tabs.add (line
\* 219).
TabName == ".!notebook.!frame"
\* What set_meta is called with as tk_name: "" when it is not given.
TkNames == {"", TabName}
\* The methods a Textbox instance has that the undo code calls: those of
\* tkinter.Text (get, insert, delete) and those the class defines. Neither
\* tkinter.Text nor Textbox defines a method called clear.
TextboxMethods ==
    {"get", "insert", "delete", "clear_all", "select_all", "delete_selection",
     "stackify", "undo", "redo"}

Min(a, b) == IF a < b THEN a ELSE b

Max(a, b) == IF a > b THEN a ELSE b

\* A Tk text index "line.col".
TkIndex(line, col) == ToString(line) \o "." \o ToString(col)

\* The position of the first "." of s, Len(s) + 1 if there is none.
RECURSIVE DotPos(_, _)
DotPos(s, k) ==
    IF k > Len(s) \/ SubSeq(s, k, k) = "." THEN k ELSE DotPos(s, k + 1)

\* str(i).split(".")[0]
SplitDot0(s) == SubSeq(s, 1, DotPos(s, 1) - 1)

\* The number a string of decimal digits writes.
RECURSIVE ParseInt(_)
ParseInt(s) ==
    IF s = ""
    THEN 0
    ELSE ParseInt(SubSeq(s, 1, Len(s) - 1)) * 10
         + (CHOOSE d \in 0..9 : ToString(d) = SubSeq(s, Len(s), Len(s)))

LineOf(i) == ParseInt(SplitDot0(i))
ColOf(i) == ParseInt(SubSeq(i, DotPos(i, 1) + 1, Len(i)))

\* Is the index a at or before the index b?
IndexLE(a, b) ==
    \/ LineOf(a) < LineOf(b)
    \/ LineOf(a) = LineOf(b) /\ ColOf(a) <= ColOf(b)

\* Is s a string of decimal digits?
IsNumber(s) ==
    /\ s # ""
    /\ \A k \in 1..Len(s) :
          SubSeq(s, k, k) \in {"0", "1", "2", "3", "4", "5", "6", "7", "8", "9"}

\* Is s an index "line.col"?
IsIndex(s) ==
    /\ IsNumber(SubSeq(s, 1, DotPos(s, 1) - 1))
    /\ IsNumber(SubSeq(s, DotPos(s, 1) + 1, Len(s)))

(***************************************************************************)
(* The text widget.                                                        *)
(***************************************************************************)
\* self.get("1.0", "end - 1c"): everything but the final newline.
GetText(c) == SubSeq(c, 1, Len(c) - 1)

\* self.insert("0.0", s): Tk clamps index 0.0 to the start of the text.
InsertAtStart(c, s) == s \o c

\* The operation stackify's self.get("1.0", "end - 1c") sends to the widget.
GetOp == <<"get", "1.0", "end - 1c">>

\* The length of line l of the document of v.
LineLen(v, l) ==
    IF \E p \in v.lens : p[1] = l
    THEN (CHOOSE p \in v.lens : p[1] = l)[2]
    ELSE 0

SetLen(lens, l, n) ==
    {p \in lens : p[1] # l} \cup (IF n > 0 THEN {<<l, n>>} ELSE {})

\* The index of the insert mark, which is at the end of the text, and the
\* index "end", the position after the final newline.
InsertIndex(v) == TkIndex(v.nlines, LineLen(v, v.nlines))

EndIndex(v) == TkIndex(v.nlines + 1, 0)

\* Is the insert mark within the selection sel (tk::TextCursorInSelection)?
CursorInSelection(sel, v) ==
    /\ sel # <<>>
    /\ IndexLE(sel[1], InsertIndex(v))
    /\ IndexLE(InsertIndex(v), sel[2])

\* The end of tk::TextSetCursor: the selection is dropped, the insert mark
\* brought into view and, the widget having undo=True (line 22), a
\* separator put on Tk's own undo stack.
CursorSetOps ==
    <<<<"tag", "remove", "sel", "1.0", "end">>, <<"see", "insert">>,
      <<"cget", "-autoseparators">>, <<"edit", "separator">>>>

\* tk::TextInsert for the character s: the test of the selection stops at
\* the first comparison that fails; a selection the insert mark is in is
\* deleted before the character is inserted, the two changes between
\* separators of Tk's undo stack.
TextInsertOps(s, sel, v) ==
    <<<<"cget", "-state">>, <<"tag", "ranges", "sel">>>>
    \o (IF sel # <<>> THEN <<<<"compare", "sel.first", "<=", "insert">>>> ELSE <<>>)
    \o (IF sel # <<>> /\ IndexLE(sel[1], InsertIndex(v))
        THEN <<<<"compare", "sel.last", ">=", "insert">>>> ELSE <<>>)
    \o (IF CursorInSelection(sel, v)
        THEN <<<<"cget", "-autoseparators">>,
               <<"configure", "-autoseparators", "0">>, <<"edit", "separator">>,
               <<"delete", "sel.first", "sel.last">>>>
        ELSE <<>>)
    \o <<<<"insert", "insert", s>>, <<"see", "insert">>>>
    \o (IF CursorInSelection(sel, v)
        THEN <<<<"edit", "separator">>, <<"configure", "-autoseparators", "1">>>>
        ELSE <<>>)

\* The operations the Text class binding sends to the widget command for a
\* key, after check_on_key has returned: tk::TextInsert for a printing key,
\* tk::TextSetCursor for the Right arrow and for Control with e. The insert
\* mark is at the end of the text, so the position right of it is "end".
BindingOps(e, sel, v) ==
    IF Printing(e)
    THEN TextInsertOps(e.char, sel, v)
    ELSE IF e.keysym = "Right"
    THEN <<<<"compare", "insert+1displayindices", "==", "end">>,
           <<"mark", "set", "insert", "end - 1 chars">>>> \o CursorSetOps
    ELSE <<<<"compare", "insert display lineend", "==", "end">>,
           <<"mark", "set", "insert", "insert display lineend">>>> \o CursorSetOps

\* The position in c of the n-th newline at or after position k.
RECURSIVE NthNewline(_, _, _)
NthNewline(c, n, k) ==
    IF k >= Len(c)
    THEN Len(c)
    ELSE IF SubSeq(c, k, k) # "\n"
    THEN NthNewline(c, n, k + 1)
    ELSE IF n = 1 THEN k ELSE NthNewline(c, n - 1, k + 1)

\* How many characters of c come before the index i.
OffsetOf(c, i) ==
    (IF LineOf(i) = 1 THEN 0 ELSE NthNewline(c, LineOf(i) - 1, 1)) + ColOf(i)

\* Where a deletion from the index i to "end" starts: the final newline is
\* never deleted, so Tk ends the deletion one character early and, when i
\* is the start of a line that is not the first, starts it one character
\* early too.
DeleteStart(c, i) ==
    IF ColOf(i) = 0 /\ LineOf(i) > 1 THEN OffsetOf(c, i) - 1 ELSE OffsetOf(c, i)

\* What the widget holds once it has executed args. Characters are
\* inserted at the insert mark, which is at the end of the text. The final
\* newline is never deleted: a deletion that ends at "end" starts one
\* character early instead, unless it starts on the first line, so
\* "delete insert" after an empty last line takes the newline before it.
WidgetExecute(c, sel, args) ==
    IF Len(args) = 3 /\ args[1] = "insert" /\ args[2] = "insert"
    THEN GetText(c) \o args[3] \o "\n"
    ELSE IF args = <<"delete", "1.0">> /\ Len(c) > 1
    THEN SubSeq(c, 2, Len(c))
    ELSE IF args = <<"delete", "1.0", "end">>
    THEN "\n"
    ELSE IF args = <<"delete", "sel.first", "sel.last">> /\ sel # <<>>
    THEN SubSeq(c, 1, DeleteStart(c, sel[1])) \o "\n"
    ELSE IF /\ args = <<"delete", "insert">>
            /\ Len(c) > 1
            /\ SubSeq(c, Len(c) - 1, Len(c)) = "\n\n"
    THEN SubSeq(c, 1, Len(c) - 1)
    ELSE c

\* The lines of the text s: the number n of its newlines, the length head
\* of what comes before the first of them and tail of what comes after the
\* last (both the length of s when it has none) and, in mid, the lengths of
\* the lines between that are not empty, the line after the k-th newline
\* as <<k, length>>.
JoinLines(L, R) ==
    IF L.n = 0 /\ R.n = 0
    THEN [n |-> 0, head |-> L.head + R.head, tail |-> L.head + R.head, mid |-> {}]
    ELSE IF L.n = 0
    THEN [R EXCEPT !.head = L.head + R.head]
    ELSE IF R.n = 0
    THEN [L EXCEPT !.tail = L.tail + R.head]
    ELSE [n |-> L.n + R.n, head |-> L.head, tail |-> R.tail,
          mid |-> L.mid
                  \cup (IF L.tail + R.head > 0 THEN {<<L.n, L.tail + R.head>>} ELSE {})
                  \cup {<<L.n + p[1], p[2]>> : p \in R.mid}]

RECURSIVE ScanLines(_)
ScanLines(s) ==
    IF s = Rep("\n", Len(s))
    THEN [n |-> Len(s), head |-> 0, tail |-> 0, mid |-> {}]
    ELSE IF Len(s) = 1
    THEN [n |-> 0, head |-> 1, tail |-> 1, mid |-> {}]
    ELSE JoinLines(ScanLines(SubSeq(s, 1, Len(s) \div 2)),
                   ScanLines(SubSeq(s, Len(s) \div 2 + 1, Len(s))))

\* "insert insert s" seen by the layout: the last line gets what comes
\* before the first newline of s, and the lines after it are new.
InsertAtEnd(v, s) ==
    LET sc == ScanLines(s)
        l == v.nlines
    IN  [v EXCEPT
           !.nlines = l + sc.n,
           !.lens = SetLen(v.lens, l, LineLen(v, l) + sc.head)
                    \cup {<<l + p[1], p[2]>> : p \in sc.mid}
                    \cup (IF sc.n > 0 /\ sc.tail > 0
                          THEN {<<l + sc.n, sc.tail>>} ELSE {})]

\* "delete 1.0" seen by the layout: the first line loses a character, or,
\* when it is empty and not the only line, is joined with the second.
DeleteFirst(v) ==
    IF LineLen(v, 1) > 0
    THEN [v EXCEPT !.lens = SetLen(v.lens, 1, LineLen(v, 1) - 1)]
    ELSE IF v.nlines > 1
    THEN [v EXCEPT !.nlines = v.nlines - 1,
                   !.lens = {<<p[1] - 1, p[2]>> : p \in v.lens},
                   !.top = IF v.top > 1 THEN v.top - 1 ELSE 1]
    ELSE v

\* The text from the index i to "end" deleted, seen by the layout: the
\* line of i is the last one and ends at i, or, when i is the start of a
\* line that is not the first, the line before it is the last one.
TruncatedAt(v, i) ==
    LET l == IF ColOf(i) = 0 /\ LineOf(i) > 1 THEN LineOf(i) - 1 ELSE LineOf(i)
        n == IF l = LineOf(i) THEN ColOf(i) ELSE LineLen(v, l)
    IN  [v EXCEPT !.nlines = l,
                  !.lens = SetLen({p \in v.lens : p[1] < l}, l, n)]

\* The length of the longest line in the window of v.
LongestShown(v) ==
    LET shown == {0} \cup {p[2] : p \in {q \in v.lens :
                                          /\ q[1] >= v.top
                                          /\ q[1] < v.top + v.height}}
    IN  CHOOSE m \in shown : \A n \in shown : n <= m

\* The most characters that can be scrolled off to the left: Tk scrolls
\* sideways only as far as the longest line in the window goes beyond the
\* window's width.
MaxLeft(v) == Max(0, LongestShown(v) - v.width)

\* The window brought to the line first, or as near to it as the end of
\* the document allows; the lines it shows then may allow less of a
\* sideways scroll than there was.
Scrolled(v, first) ==
    LET u == [v EXCEPT !.top = Max(1, Min(first, MaxTop(v.nlines, v.height)))]
    IN  [u EXCEPT !.left = Min(u.left, MaxLeft(u))]

\* What the widget shows once it has executed args: inserted text makes
\* the last line longer and adds the lines after its newlines, a scroll by
\* one unit moves the window one line while there is a line to bring to its
\* end, a yview of an index brings that line to the top, a moveto goes to a
\* fraction of the height or of the longest line shown, a see of the insert
\* mark brings the last line into the window. Queries, marks and tags
\* change nothing.
Displayed(v, sel, args) ==
    IF Len(args) = 3 /\ args[1] = "insert" /\ args[2] = "insert"
    THEN InsertAtEnd(v, args[3])
    ELSE IF args = <<"delete", "1.0">>
    THEN Scrolled(DeleteFirst(v), DeleteFirst(v).top)
    ELSE IF args = <<"delete", "1.0", "end">>
    THEN Scrolled(TruncatedAt(v, "1.0"), v.top)
    ELSE IF args = <<"delete", "sel.first", "sel.last">> /\ sel # <<>>
    THEN Scrolled(TruncatedAt(v, sel[1]), v.top)
    ELSE IF args = <<"delete", "insert">> /\ v.nlines > 1 /\ LineLen(v, v.nlines) = 0
    THEN Scrolled([v EXCEPT !.nlines = v.nlines - 1], v.top)
    ELSE IF args = <<"yview", "scroll", "1", "units">>
    THEN Scrolled(v, v.top + 1)
    ELSE IF args = <<"yview", "scroll", "-1", "units">>
    THEN Scrolled(v, v.top - 1)
    ELSE IF args = <<"yview", "moveto", "0">>
    THEN Scrolled(v, 1)
    ELSE IF args = <<"see", "insert">> /\ v.top + v.height <= v.nlines
    THEN Scrolled(v, v.nlines)
    ELSE IF args = <<"yview", "insert">>
    THEN Scrolled(v, v.nlines)
    ELSE IF Len(args) = 2 /\ args[1] = "yview" /\ IsIndex(args[2])
    THEN Scrolled(v, Min(LineOf(args[2]), v.nlines))
    ELSE IF args = <<"xview", "moveto", "0">>
    THEN [v EXCEPT !.left = 0]
    ELSE IF args = <<"xview", "moveto", "0.5">>
    THEN [v EXCEPT !.left = Min(LongestShown(v) \div 2, MaxLeft(v))]
    ELSE v

\* The ranges of the sel tag once the widget has executed args on the view
\* v, where u is the view after: the tag is put on the whole text or taken
\* off it, goes with the text that is deleted (a deletion up to "end"
\* takes the tags off the final newline) and, reaching to the end of the
\* text, takes in what is inserted between tagged characters.
Selected(sel, v, u, args) ==
    IF args = <<"tag", "add", "sel", "1.0", "end">>
    THEN <<"1.0", EndIndex(v)>>
    ELSE IF \/ args = <<"tag", "remove", "sel", "1.0", "end">>
            \/ args = <<"delete", "1.0", "end">>
            \/ args = <<"delete", "sel.first", "sel.last">>
            \/ sel = <<>>
    THEN <<>>
    ELSE <<IF sel[1] = InsertIndex(v) THEN InsertIndex(u) ELSE sel[1], EndIndex(u)>>

\* The operations of callers outside the class that the widget can
\* execute; it rejects the others (a wrong number of words, a word that is
\* no index, no mark name or no number).
Executable ==
    SampleOps
    \cup {ViewScript[k] : k \in 1..Len(ViewScript)}
    \cup {<<"delete", "1.0">>, <<"yview", "scroll", "-1", "units">>,
          <<"yview", "moveto", "0">>, <<"xview", "moveto", "0">>}
    \cup {<<"xview">>, <<"yview">>, <<"index", "insert">>, <<"delete", "insert">>,
          <<"delete", "insert", "insert">>, <<"yview", "insert">>,
          <<"delete", "1.0", "end">>}
    \cup {<<"insert", "insert", w>> : w \in Words}

(***************************************************************************)
(* The snapshot stack: stackify, undo, redo.                               *)
(***************************************************************************)
\* A list in place of the bounded deque: append never discards.
ListAppend(s, x, cap) == Append(s, x)

\* deque(maxlen = cap).append(x): a full deque discards its leftmost item.
DequeAppend(s, x, cap) ==
    IF Len(s) >= cap THEN Tail(s) \o <<x>> ELSE Append(s, x)

\* The history state the three methods read and write.
Hist(s, k, c) == [stack |-> s, stackcursor |-> k, content |-> c, exc |-> "none"]

Raise(h, e) == [h EXCEPT !.exc = e]

\* stackify that skips a text equal to the newest stored snapshot.
stackifyWhenChanged(h, cap) ==
    IF h.stack # <<>> /\ h.stack[Len(h.stack)] = GetText(h.content)
    THEN h
    ELSE [h EXCEPT !.stack = DequeAppend(h.stack, GetText(h.content), cap),
                   !.stackcursor = IF h.stackcursor < CursorCap
                                   THEN h.stackcursor + 1 ELSE h.stackcursor]

\* def stackify(self)
stackify(h, cap) ==
    LET appended == DequeAppend(h.stack, GetText(h.content), cap)
    IN  [h EXCEPT !.stack = appended,
                  !.stackcursor = IF h.stackcursor < CursorCap
                                  THEN h.stackcursor + 1 ELSE h.stackcursor]

\* The body of undo and redo from self.clear() on, with the cursor k the
\* method has computed: the attribute lookup of clear comes first, then the
\* subscript self.stack[k], then the insert.
Restore(h, k) ==
    IF "clear" \notin TextboxMethods
    THEN Raise(h, "AttributeError")
    ELSE IF k >= Len(h.stack)
         THEN Raise([h EXCEPT !.content = "\n", !.stackcursor = k], "IndexError")
         ELSE [h EXCEPT !.stackcursor = k,
                        !.content = InsertAtStart("\n", h.stack[k + 1])]

\* undo that takes the newest snapshot off the stack as it goes back.
undoPopping(h) ==
    IF h.stackcursor # 0
    THEN [Restore(h, h.stackcursor - 1)
            EXCEPT !.stack = SubSeq(h.stack, 1, Len(h.stack) - 1)]
    ELSE h

\* undo that moves the cursor before it clears the document.
undoCursorFirst(h) ==
    IF h.stackcursor # 0
    THEN [Restore(h, h.stackcursor - 1) EXCEPT !.stackcursor = h.stackcursor - 1]
    ELSE h

\* def undo(self)
undo(h) ==
    IF h.stackcursor # 0
    THEN Restore(h, IF h.stackcursor > 0 THEN h.stackcursor - 1 ELSE h.stackcursor)
    ELSE h

\* def redo(self)
redo(h) ==
    IF Len(h.stack) > h.stackcursor + 1
    THEN Restore(h, IF h.stackcursor < CursorCap
                    THEN h.stackcursor + 1 ELSE h.stackcursor)
    ELSE h

(***************************************************************************)
(* The proxy installed by _setup_syntax_highlighting.                      *)
(***************************************************************************)
\* Python's args[0:n]: the first n items, or all of them if there are fewer.
Prefix(args, n) == SubSeq(args, 1, Min(n, Len(args)))

\* The test with any "mark set" accepted, whatever the mark.
ClassifyAnyMark(args) ==
    \/ args[1] \in {"insert", "replace", "delete"}
    \/ Prefix(args, 2) = <<"mark", "set">>
    \/ Prefix(args, 2) = <<"xview", "moveto">>
    \/ Prefix(args, 2) = <<"xview", "scroll">>
    \/ Prefix(args, 2) = <<"yview", "moveto">>
    \/ Prefix(args, 2) = <<"yview", "scroll">>

\* The test of lines 294-300: does the raw operation generate <<Change>>?
Classify(args) ==
    \/ args[1] \in {"insert", "replace", "delete"}
    \/ Prefix(args, 3) = <<"mark", "set", "insert">>
    \/ Prefix(args, 2) = <<"xview", "moveto">>
    \/ Prefix(args, 2) = <<"xview", "scroll">>
    \/ Prefix(args, 2) = <<"yview", "moveto">>
    \/ Prefix(args, 2) = <<"yview", "scroll">>

\* def _proxy_for_line_numbers(self, *args), for an operation the original
\* widget executes (fails = FALSE) or rejects with an error (fails = TRUE).
\*   executed: the original widget carried the operation out
\*   logged:   the except branch printed the error and the command
\*   notified: event_generate("<<Change>>", when="tail") was called
\*   exc:      the exception that leaves the proxy
\* With dev the error of self.tk.call is caught and result stays unassigned,
\* so "return result" raises UnboundLocalError; without dev the error of
\* self.tk.call leaves the proxy at line 289, before the test.
proxy_for_line_numbers(args, fails, dev) ==
    IF fails /\ ~dev
    THEN [executed |-> FALSE, logged |-> FALSE, notified |-> FALSE,
          exc |-> "TclError"]
    ELSE [executed |-> ~fails, logged |-> fails, notified |-> Classify(args),
          exc |-> IF fails THEN "UnboundLocalError" ELSE "none"]

\* The widget command as Tk calls it: the proxy when
\* _setup_syntax_highlighting has installed it, the widget itself otherwise.
WidgetCommand(args, fails, dev, installed) ==
    IF installed
    THEN proxy_for_line_numbers(args, fails, dev)
    ELSE [executed |-> ~fails, logged |-> FALSE, notified |-> FALSE,
          exc |-> IF fails THEN "TclError" ELSE "none"]

\* A queue that holds at most one <<Change>>: a second one is dropped.
EnqueueCoalesced(queue, r, ops) ==
    IF r.notified /\ queue = <<>> THEN Append(queue, ops) ELSE queue

\* The queue of <<Change>> events after a command: an event generated with
\* when="tail" is appended; it carries the number of operations the widget
\* had executed when it was generated.
Enqueue(queue, r, ops) == IF r.notified THEN Append(queue, ops) ELSE queue

\* One call of the widget command. w is what the call can change: the
\* record of the last operation the proxy handled, the number of
\* operations the widget has executed, the <<Change>> queue, the text, the
\* selection and the layout.
Send(w, args, fails, dev, installed) ==
    LET r == WidgetCommand(args, fails, dev, installed)
        ops == IF r.executed THEN w.widget_ops + 1 ELSE w.widget_ops
    IN  [raw |-> IF installed
                 THEN [args |-> args, fails |-> fails, executed |-> r.executed,
                       logged |-> r.logged, notified |-> r.notified]
                 ELSE w.raw,
         widget_ops |-> ops,
         change_queue |-> Enqueue(w.change_queue, r, ops),
         content |-> IF r.executed
                     THEN WidgetExecute(w.content, w.selection, args)
                     ELSE w.content,
         selection |-> IF r.executed
                       THEN Selected(w.selection, w.view,
                                     Displayed(w.view, w.selection, args), args)
                       ELSE w.selection,
         view |-> IF r.executed THEN Displayed(w.view, w.selection, args) ELSE w.view,
         exc |-> r.exc]

\* Calls of the widget command one after another, none failing.
RECURSIVE SendAll(_, _, _, _)
SendAll(w, ops, dev, installed) ==
    IF ops = <<>>
    THEN w
    ELSE SendAll(Send(w, Head(ops), FALSE, dev, installed), Tail(ops), dev, installed)

(***************************************************************************)
(* The line-number canvas: TextLineNumbers.redraw.                         *)
(***************************************************************************)
\* self.textwidget.index("@0,0"): the first visible character, or the end
\* of the first visible line when all of it is scrolled off to the left.
IndexAt00(v) == TkIndex(v.top, Min(v.left, LineLen(v, v.top)))

\* self.textwidget.dlineinfo(i): None for a line that is not displayed,
\* that is a line outside the window or past the last line of the text
\* (the position after the final newline); else the line's box, of which
\* redraw reads the y coordinate: the lines start below the highlight
\* ring, the border and the padding.
dlineinfo(v, i) ==
    LET l == LineOf(i)
    IN  IF l > v.nlines \/ l < v.top \/ l >= v.top + v.height
        THEN [none |-> TRUE, y |-> 0]
        ELSE [none |-> FALSE,
              y |-> highlightthickness + border + pady + (l - v.top) * v.px]

\* self.textwidget.index("%s+1line" % i): the same column one line down,
\* or the end of that line when it is shorter; from the last line Tk goes
\* to the position after the final newline.
PlusOneLine(v, i) ==
    IF LineOf(i) + 1 > v.nlines
    THEN TkIndex(v.nlines + 1, 0)
    ELSE TkIndex(LineOf(i) + 1, Min(ColOf(i), LineLen(v, LineOf(i) + 1)))

\* The font size test with > replaced by >=.
FontSizeFromFourDigits(linenum) == IF Len(linenum) >= 4 THEN 7 ELSE 10

\* Lines 384-387: size 10, or 7 for a line number of more than 4 digits.
FontSize(linenum) == IF Len(linenum) > 4 THEN 7 ELSE 10

\* The canvas item create_text makes for the line of index i.
Label(v, i) ==
    LET linenum == SplitDot0(i)
    IN  [x |-> 2, y |-> dlineinfo(v, i).y - 2, text |-> linenum,
         size |-> FontSize(linenum)]

(***************************************************************************)
(* The state after Textbox.__init__.                                       *)
(***************************************************************************)
\* What __init__ sets whatever the configuration is.
Constructed ==
    /\ keys = 0
    /\ pos_updates = 0
    /\ syntax_calls = 0
    /\ raw = [args |-> <<>>, fails |-> FALSE, executed |-> FALSE,
              logged |-> FALSE, notified |-> FALSE]
    /\ raw_calls = 0
    /\ calls = 0
    /\ selection = <<>>
    /\ widget_ops = 0
    /\ change_queue = <<>>
    /\ file_name = new_file_name
    /\ tk_name = ""
    /\ redraw_pc = "idle"
    /\ redraw_i = "1.0"
    /\ labels = <<>>
    /\ redraws = <<>>
    /\ stack = <<>>
    /\ stackcursor = 0
    /\ content = "\n"
    /\ changed_since_saved = FALSE
    /\ tab_text = ""
    /\ set_properties_calls = 0
    /\ after_pending = 0
    /\ recorded = <<>>
    /\ saves = 0
    /\ last = [op |-> "init", exc |-> "none"]

\* The capacity cf.max_undo (line 36) has by default: the one the literal 9
\* of stackify and redo fits.
DefaultCapacity == CursorCap + 1

\* The configurations: highlighting, and so the proxy, off as the
\* repository ships it (lines 47-48), with every capacity of Capacities, or
\* on, with cf.dev_mode (read by the proxy only, line 282) on or off and
\* the default capacity.
Init ==
    /\ Constructed
    /\ enable_syntax_highlighting \in BOOLEAN
    /\ dev_mode \in (IF enable_syntax_highlighting THEN BOOLEAN ELSE {FALSE})
    /\ view = NewView
    /\ max_undo \in (IF enable_syntax_highlighting THEN {DefaultCapacity} ELSE Capacities)

Here == Hist(stack, stackcursor, content)

SetHist(h) ==
    /\ stack' = h.stack
    /\ stackcursor' = h.stackcursor
    /\ content' = h.content

\* What a call of the widget command can change, as it is now.
Widget ==
    [raw |-> raw, widget_ops |-> widget_ops, change_queue |-> change_queue,
     content |-> content, selection |-> selection, view |-> view, exc |-> "none"]

\* The widget after calls of the widget command, the text apart.
SetWidget(w) ==
    /\ raw' = w.raw
    /\ widget_ops' = w.widget_ops
    /\ change_queue' = w.change_queue
    /\ selection' = w.selection
    /\ view' = w.view

(***************************************************************************)
(* Operations.                                                             *)
(***************************************************************************)
\* A direct call of stackify (record_snapshot): its self.get is an
\* operation the widget executes.
Stackify ==
    /\ redraw_pc = "idle"
    /\ Len(recorded) < MaxRecords
    /\ LET w == Send(Widget, GetOp, FALSE, dev_mode, enable_syntax_highlighting)
           h == stackify(Hist(stack, stackcursor, w.content), max_undo)
       IN  /\ SetHist(h)
           /\ SetWidget(w)
    /\ recorded' = Append(recorded, GetText(content))
    /\ calls' = calls + 1
    /\ last' = [op |-> "stackify", exc |-> "none"]
    /\ UNCHANGED <<max_undo, dirtyVars, after_pending>>
    /\ UNCHANGED <<cfgVars, keys, pos_updates, syntax_calls, raw_calls>>
    /\ UNCHANGED <<redraw_pc, redraw_i, labels, redraws>>

\* The text, the cursor and the number of stored snapshots as a call finds
\* them.
Before == [text |-> GetText(content), cursor |-> stackcursor, count |-> Len(stack)]

\* A call of undo. last keeps what the call found.
Undo ==
    /\ redraw_pc = "idle"
    /\ SetHist(undo(Here))
    /\ last' = [op |-> "undo", exc |-> undo(Here).exc, before |-> Before]
    /\ UNCHANGED <<max_undo, recorded, dirtyVars, after_pending>>
    /\ UNCHANGED <<cfgVars, keyVars, proxyVars, redrawVars>>

\* A call of redo. last keeps whether the call before was an undo and, if
\* so, what that undo found.
Redo ==
    /\ redraw_pc = "idle"
    /\ SetHist(redo(Here))
    /\ last' = [op |-> "redo", exc |-> redo(Here).exc, undone |-> last.op = "undo",
                before |-> IF last.op = "undo" THEN last.before ELSE Before]
    /\ UNCHANGED <<max_undo, recorded, dirtyVars, after_pending>>
    /\ UNCHANGED <<cfgVars, keyVars, proxyVars, redrawVars>>

\* The test check_on_key makes of the event: no modifier key is pressed.
Qualifying(e) == e.state = PlainState

\* The calls check_on_key makes, in the order of its statements.
Dependents == <<"set_properties", "after", "stackify", "tagHighlight", "scan">>

DependentNames == {Dependents[k] : k \in 1..Len(Dependents)}

DependentAt(f) == CHOOSE k \in 1..Len(Dependents) : Dependents[k] = f

\* The call g comes before the raising call f, so g has run.
CallsBefore(f, g) == DependentAt(g) < DependentAt(f)

\* The first statement of check_on_key: the changed_since_saved test.
\* Gives the flag, the tab label and the number of set_properties calls;
\* name is self.file_name.
MarkDirty(flag, label, n, name, e) ==
    IF ~flag /\ Qualifying(e)
    THEN [flag |-> TRUE, label |-> name \o " *", calls |-> n + 1]
    ELSE [flag |-> flag, label |-> label, calls |-> n]

\* check_on_key without its self.after(10, ...) line.
AfterNothing(pending) == pending

\* self.after(10, self.tabs.view.footer.update_pos): one more single-shot
\* callback is waiting.
After(pending) == pending + 1

\* A <Key> event: the instance binding check_on_key (mark dirty, schedule
\* update_pos, stackify, highlight when enabled), then the Text class
\* binding.
Key(e) ==
    /\ redraw_pc = "idle"
    /\ keys < MaxKeys
    /\ Len(recorded) < MaxRecords
    /\ LET d == MarkDirty(changed_since_saved, tab_text, set_properties_calls,
                          file_name, e)
           g == Send(Widget, GetOp, FALSE, dev_mode, enable_syntax_highlighting)
           h == stackify(Hist(stack, stackcursor, g.content), max_undo)
           w == SendAll(g, BindingOps(e, selection, view), dev_mode,
                        enable_syntax_highlighting)
       IN  /\ changed_since_saved' = d.flag
           /\ tab_text' = d.label
           /\ set_properties_calls' = d.calls
           /\ after_pending' = After(after_pending)
           /\ stack' = h.stack
           /\ stackcursor' = h.stackcursor
           /\ content' = w.content
           /\ SetWidget(w)
    /\ recorded' = Append(recorded, GetText(content))
    /\ last' = [op |-> "key", exc |-> "none"]
    /\ keys' = keys + 1
    /\ syntax_calls' = IF enable_syntax_highlighting
                       THEN syntax_calls + 2 ELSE syntax_calls
    /\ UNCHANGED <<max_undo, file_name, tk_name, saves, cfgVars, pos_updates>>
    /\ UNCHANGED <<raw_calls, calls, redraw_pc, redraw_i, labels, redraws>>

\* A <Key> event during which the call f of check_on_key raises. The
\* statements before f have run, f and the statements after it have not:
\* check_on_key has no try. tkinter's CallWrapper reports the exception, so
\* the Text class binding still runs. A stackify that raises is one whose
\* self.get the widget rejects.
KeyFault(e, f) ==
    /\ redraw_pc = "idle"
    /\ keys < MaxKeys
    /\ Len(recorded) < MaxRecords
    /\ f = "set_properties" => ~changed_since_saved /\ e.state = PlainState
    /\ f \in {"tagHighlight", "scan"} => enable_syntax_highlighting
    /\ LET d == MarkDirty(changed_since_saved, tab_text, set_properties_calls,
                          file_name, e)
           g == IF CallsBefore(f, "after")
                THEN Send(Widget, GetOp, f = "stackify", dev_mode,
                          enable_syntax_highlighting)
                ELSE Widget
           h == IF CallsBefore(f, "stackify")
                THEN stackify(Hist(stack, stackcursor, g.content), max_undo)
                ELSE Here
           w == SendAll(g, BindingOps(e, selection, view), dev_mode,
                        enable_syntax_highlighting)
       IN  /\ changed_since_saved' = d.flag
           /\ tab_text' = IF f = "set_properties" THEN tab_text ELSE d.label
           /\ set_properties_calls' =
                  IF f = "set_properties" THEN set_properties_calls ELSE d.calls
           /\ after_pending' = IF CallsBefore(f, "after")
                                THEN After(after_pending) ELSE after_pending
           /\ stack' = h.stack
           /\ stackcursor' = h.stackcursor
           /\ content' = w.content
           /\ SetWidget(w)
    /\ recorded' = IF CallsBefore(f, "stackify")
                   THEN Append(recorded, GetText(content)) ELSE recorded
    /\ last' = [op |-> "key", exc |-> f]
    /\ keys' = keys + 1
    /\ syntax_calls' = IF CallsBefore(f, "tagHighlight")
                       THEN syntax_calls + 1 ELSE syntax_calls
    /\ UNCHANGED <<max_undo, file_name, tk_name, saves, cfgVars, pos_updates>>
    /\ UNCHANGED <<raw_calls, calls, redraw_pc, redraw_i, labels, redraws>>

\* One callback scheduled by self.after(10, ...update_pos) comes due and
\* the event loop runs it, whatever events are queued: a handler of its
\* own, run when no other handler is running. last keeps how many callbacks
\* were waiting.
UpdatePos ==
    /\ redraw_pc = "idle"
    /\ after_pending > 0
    /\ after_pending' = after_pending - 1
    /\ pos_updates' = pos_updates + 1
    /\ last' = [op |-> "update_pos", exc |-> "none", waiting |-> after_pending]
    /\ UNCHANGED <<histVars, dirtyVars, cfgVars, keys, syntax_calls, calls>>
    /\ UNCHANGED <<proxyVars, redrawVars>>

\* The host acknowledges a save and clears the flag.
SaveAck ==
    /\ redraw_pc = "idle"
    /\ saves < MaxSaves
    /\ changed_since_saved
    /\ changed_since_saved' = FALSE
    /\ saves' = saves + 1
    /\ last' = [op |-> "save", exc |-> "none"]
    /\ UNCHANGED <<histVars, file_name, tk_name, tab_text, set_properties_calls>>
    /\ UNCHANGED <<after_pending, cfgVars, keyVars, proxyVars, redrawVars>>

\* self.tabs.tab(id, text=text), label being the tab's text now: the
\* notebook knows the tab by the name of its frame and raises TclError for
\* any other name, the empty one included.
tab(id, text, label) ==
    IF id = TabName
    THEN [label |-> text, exc |-> "none"]
    ELSE [label |-> label, exc |-> "TclError"]

\* set_meta(tk_name=tk, file_name=name): the tk name is stored first, then
\* the file_name setter stores the name and gives it to the tab as its
\* text; an error of the notebook leaves set_meta there. Called without a
\* file name, set_meta assigns self.file_name to itself, and the setter
\* runs just the same. file_path and full_path are not modelled.
SetMeta(tk, name) ==
    /\ redraw_pc = "idle"
    /\ tk_name' = IF tk # "" THEN tk ELSE tk_name
    /\ file_name' = IF name # "" THEN name ELSE file_name
    /\ tab_text' = tab(tk_name', file_name', tab_text).label
    /\ calls' = calls + 1
    /\ last' = [op |-> "set_meta", exc |-> tab(tk_name', file_name', tab_text).exc]
    /\ UNCHANGED <<histVars, changed_since_saved, set_properties_calls, saves>>
    /\ UNCHANGED <<after_pending, cfgVars, keys, pos_updates, syntax_calls>>
    /\ UNCHANGED <<proxyVars, redrawVars>>

\* self.tk.call as its Python caller sees it, exc being the exception that
\* left the widget command: Tcl gets an error from the command, whatever
\* was raised in it, and tkinter raises TclError.
TkCall(exc) == IF exc = "none" THEN "none" ELSE "TclError"

\* What a function of the class that reads or changes the text leaves
\* behind once the widget command has been called as w records.
Called(name, w) ==
    /\ redraw_pc = "idle"
    /\ calls' = calls + 1
    /\ SetWidget(w)
    /\ content' = w.content
    /\ last' = [op |-> name, exc |-> TkCall(w.exc)]
    /\ UNCHANGED <<max_undo, stack, stackcursor, recorded, dirtyVars, after_pending>>
    /\ UNCHANGED <<cfgVars, keys, pos_updates, syntax_calls, raw_calls>>
    /\ UNCHANGED <<redraw_pc, redraw_i, labels, redraws>>

\* def clear_all(self)
ClearAll ==
    Called("clear_all", Send(Widget, <<"delete", "1.0", "end">>, FALSE, dev_mode,
                             enable_syntax_highlighting))

\* def select_all(self)
SelectAll ==
    Called("select_all", Send(Widget, <<"tag", "add", "sel", "1.0", "end">>, FALSE,
                              dev_mode, enable_syntax_highlighting))

\* def delete_selection(self): with nothing selected the widget knows no
\* index sel.first and rejects the operation.
DeleteSelection ==
    Called("delete_selection",
           Send(Widget, <<"delete", "sel.first", "sel.last">>, selection = <<>>,
                dev_mode, enable_syntax_highlighting))

\* def is_blank(self)
IsBlank ==
    Called("is_blank", Send(Widget, <<"get", "1.0", "end">>, FALSE, dev_mode,
                            enable_syntax_highlighting))

\* def get_current_line_text(self)
GetCurrentLineText ==
    Called("get_current_line_text",
           Send(Widget, <<"get", "insert linestart", "insert lineend">>, FALSE,
                dev_mode, enable_syntax_highlighting))

\* def get_selection(self): the text is read only when there is a selection.
GetSelection ==
    Called("get_selection",
           SendAll(Widget,
                   <<<<"tag", "ranges", "sel">>>>
                   \o (IF selection # <<>>
                       THEN <<<<"get", "sel.first", "sel.last">>>> ELSE <<>>),
                   dev_mode, enable_syntax_highlighting))

\* How many spaces s has from position k on.
RECURSIVE LeadingSpaces(_, _)
LeadingSpaces(s, k) ==
    IF k > Len(s) \/ SubSeq(s, k, k) # " " THEN 0 ELSE 1 + LeadingSpaces(s, k + 1)

\* def getIndex(self, index), for the start of a line that begins with k
\* spaces: one get per space, one for the character after them, one index.
getIndexOps(index, k) ==
    [j \in 1..(k + 1) |-> <<"get", index \o Rep("+1c", j - 1)>>]
    \o <<<<"index", index \o Rep("+1c", k)>>>>

\* A call of getIndex with the start of line l as the index.
GetIndex(l) ==
    LET index == TkIndex(l, 0)
        k == LeadingSpaces(GetText(content), OffsetOf(content, index) + 1)
    IN  Called("getIndex", SendAll(Widget, getIndexOps(index, k), dev_mode,
                                   enable_syntax_highlighting))

\* The while loop of auto_indent from its j-th turn on, n turns in all.
RECURSIVE IndentLoop(_, _, _, _)
IndentLoop(prevIndent, prevIndentLine, j, n) ==
    LET test == <<"compare", prevIndent, ">", prevIndentLine \o Rep("+4c", j)>>
    IN  IF j >= n
        THEN <<test>>
        ELSE <<test, <<"insert", "insert", "     ">>,
               <<"mark", "set", "insert", "insert + 4 chars">>>>
             \o IndentLoop(prevIndent, prevIndentLine, j + 1, n)

\* The operations auto_indent sends for the text c laid out as v: the loop
\* goes on while the line's first character that is no space is right of
\* four more columns, so once per four spaces begun.
auto_indent(c, v) ==
    LET index1 == InsertIndex(v)
        text == GetText(c)
        prevIndex == IF text = "" THEN "" ELSE SubSeq(text, Len(text), Len(text))
        prevIndentLine == TkIndex(v.nlines, 0)
        k == LeadingSpaces(text, Len(text) - LineLen(v, v.nlines) + 1)
        prevIndent == TkIndex(v.nlines, k)
        loop == IndentLoop(prevIndent, prevIndentLine, 0, (k + 3) \div 4)
    IN  <<<<"index", "insert">>, <<"get", index1 \o "-1c", index1>>,
          <<"index", index1 \o "linestart">>>>
        \o getIndexOps(prevIndentLine, k)
        \o (IF prevIndex = ":"
            THEN <<<<"insert", "insert", "\n    ">>,
                   <<"mark", "set", "insert", "insert + 1 line + 4char">>>> \o loop
            ELSE IF prevIndent # prevIndentLine
            THEN <<<<"insert", "insert", "\n">>,
                   <<"mark", "set", "insert", "insert + 1 line">>>> \o loop
            ELSE <<>>)

\* A call of auto_indent with the Textbox itself as the widget.
AutoIndent ==
    Called("auto_indent", SendAll(Widget, auto_indent(content, view), dev_mode,
                                  enable_syntax_highlighting))

\* A caller outside the class sends an operation to the widget command:
\* args as Tk gets them, fails when the original widget rejects it.
RawOp(args, fails) ==
    /\ redraw_pc = "idle"
    /\ ~fails => args \in Executable
    /\ LET w == Send(Widget, args, fails, dev_mode, enable_syntax_highlighting)
       IN  /\ SetWidget(w)
           /\ content' = w.content
           /\ last' = [op |-> "raw", exc |-> w.exc]
    /\ raw_calls' = raw_calls + 1
    /\ UNCHANGED <<max_undo, stack, stackcursor, recorded>>
    /\ UNCHANGED <<dirtyVars, after_pending, cfgVars, keyVars>>
    /\ UNCHANGED <<redraw_pc, redraw_i, labels, redraws>>

\* redraw up to its loop: self.delete("all") and i = index("@0,0"), for
\* the event _on_change was called with (by is its kind, ev the number a
\* <<Change>> carries), queue being the events still waiting. The index
\* query goes through the widget command.
RedrawStart(by, ev, queue) ==
    /\ labels' = <<>>
    /\ redraw_i' = IndexAt00(view)
    /\ redraw_pc' = "loop"
    /\ redraws' = Append(redraws, [by |-> by, event |-> ev, seen |-> widget_ops])
    /\ SetWidget(Send([Widget EXCEPT !.change_queue = queue], <<"index", "@0,0">>,
                      FALSE, dev_mode, enable_syntax_highlighting))
    /\ last' = [op |-> "redraw", exc |-> "none"]
    /\ UNCHANGED <<histVars, dirtyVars, after_pending, cfgVars, keyVars, raw_calls>>

\* The event loop delivers the oldest queued <<Change>>: _on_change.
OnChange ==
    /\ redraw_pc = "idle"
    /\ change_queue # <<>>
    /\ RedrawStart("<<Change>>", Head(change_queue), Tail(change_queue))

\* How many <Configure> events there have been.
Configures == Cardinality({k \in 1..Len(redraws) : redraws[k].by = "<Configure>"})

\* A <Configure> event (the window is laid out or resized): _on_change.
Configure ==
    /\ redraw_pc = "idle"
    /\ Configures < MaxConfigures
    /\ RedrawStart("<Configure>", 0, change_queue)

\* One turn of redraw's while loop. Its two queries of the text widget go
\* through the widget command like any other operation.
RedrawStep ==
    /\ redraw_pc = "loop"
    /\ LET dline == dlineinfo(view, redraw_i)
           q1 == Send(Widget, <<"dlineinfo", redraw_i>>, FALSE, dev_mode,
                      enable_syntax_highlighting)
           q2 == Send(q1, <<"index", redraw_i \o "+1line">>, FALSE, dev_mode,
                      enable_syntax_highlighting)
       IN  IF dline.none
           THEN /\ redraw_pc' = "idle"
                /\ SetWidget(q1)
                /\ UNCHANGED <<redraw_i, labels>>
           ELSE /\ labels' = Append(labels, Label(view, redraw_i))
                /\ redraw_i' = PlusOneLine(view, redraw_i)
                /\ SetWidget(q2)
                /\ UNCHANGED redraw_pc
    /\ last' = [op |-> "redraw", exc |-> "none"]
    /\ UNCHANGED <<histVars, dirtyVars, after_pending, cfgVars, keyVars>>
    /\ UNCHANGED <<raw_calls, redraws>>

\* The functions of the class that read or change the text.
TextCall ==
    \/ ClearAll
    \/ SelectAll
    \/ DeleteSelection
    \/ AutoIndent
    \/ IsBlank
    \/ GetCurrentLineText
    \/ GetSelection
    \/ \E l \in 1..view.nlines : GetIndex(l)

\* There is room in the run for one more event or call from outside.
EventsLeft == keys + calls + saves + raw_calls + Configures < MaxEvents

\* Every configuration over short runs: every key of KeyEvents, every
\* function of the class, raw operations, the save acknowledgement, the
\* callbacks, the delivery of <<Change>> and the <Configure> redraw.
Next ==
    \/ EventsLeft /\ Stackify
    \/ Undo
    \/ Redo
    \/ EventsLeft /\ \E e \in KeyEvents : Key(e)
    \/ UpdatePos
    \/ EventsLeft /\ SaveAck
    \/ EventsLeft /\ \E tk \in TkNames, name \in FileNames : SetMeta(tk, name)
    \/ EventsLeft /\ TextCall
    \/ EventsLeft /\ \E args \in SampleOps, fails \in BOOLEAN : RawOp(args, fails)
    \/ OnChange
    \/ EventsLeft /\ Configure
    \/ RedrawStep

Spec == Init /\ [][Next]_vars

(***************************************************************************)
(* The snapshot stack over long runs: snapshots up to MaxRecords, undo,    *)
(* redo and the keys of HistoryKeys, over every capacity of Capacities.    *)
(***************************************************************************)
\* The configuration the repository ships: highlighting is not the default
\* (lines 47-48), so no proxy is installed and cf.dev_mode is never read.
InitHistory ==
    /\ Constructed
    /\ enable_syntax_highlighting = FALSE
    /\ dev_mode = FALSE
    /\ view = NewView
    /\ max_undo \in Capacities

NextHistory ==
    \/ Stackify
    \/ Undo
    \/ Redo
    \/ \E e \in HistoryKeys : Key(e)
    \/ UpdatePos

SpecHistory == InitHistory /\ [][NextHistory]_vars

(***************************************************************************)
(* The update_pos callbacks: keys pressed with and without highlighting,   *)
(* the callbacks they schedule, the <<Change>> events the proxy queues and *)
(* their redraws, undo and redo, the save acknowledgement and <Configure>. *)
(***************************************************************************)
InitKeys ==
    /\ Constructed
    /\ enable_syntax_highlighting \in BOOLEAN
    /\ dev_mode = FALSE
    /\ view = NewView
    /\ max_undo = DefaultCapacity

NextKeys ==
    \/ EventsLeft /\ \E e \in KeyEvents : Key(e)
    \/ UpdatePos
    \/ Undo
    \/ Redo
    \/ EventsLeft /\ SaveAck
    \/ OnChange
    \/ EventsLeft /\ Configure
    \/ RedrawStep

\* Tk's event loop runs every timer callback that has come due, delivers
\* every queued event and runs a handler to its end.
SpecKeys ==
    /\ InitKeys
    /\ [][NextKeys]_vars
    /\ WF_vars(UpdatePos)
    /\ WF_vars(OnChange)
    /\ WF_vars(RedrawStep)

(***************************************************************************)
(* The widget with highlighting enabled, so with the proxy installed:      *)
(* raw operations, the <<Change>> queue and the redraw of the line         *)
(* numbers. No key is pressed.                                             *)
(***************************************************************************)
InitProxy ==
    /\ Constructed
    /\ enable_syntax_highlighting = TRUE
    /\ dev_mode \in BOOLEAN
    /\ view = NewView
    /\ max_undo = DefaultCapacity

NextProxy ==
    \/ /\ raw_calls < MaxOps
       /\ \E args \in SampleOps, fails \in BOOLEAN : RawOp(args, fails)
    \/ OnChange
    \/ Configure
    \/ RedrawStep

\* Tk's event loop delivers every queued event and runs a handler to its
\* end.
SpecProxy ==
    InitProxy /\ [][NextProxy]_vars /\ WF_vars(OnChange) /\ WF_vars(RedrawStep)

(***************************************************************************)
(* The redraw of the line numbers: a caller sends the operations of        *)
(* ViewScript to the new widget, each once the <<Change>> of the one       *)
(* before has been delivered; the window is laid out, nothing fails.       *)
(***************************************************************************)
InitRedraw ==
    /\ Constructed
    /\ enable_syntax_highlighting = TRUE
    /\ dev_mode = FALSE
    /\ view \in {[NewView EXCEPT !.height = h] : h \in 1..MaxHeight}
    /\ max_undo = DefaultCapacity

NextRedraw ==
    \/ /\ raw_calls < Len(ViewScript)
       /\ change_queue = <<>>
       /\ RawOp(ViewScript[raw_calls + 1], FALSE)
    \/ OnChange
    \/ Configure
    \/ RedrawStep

SpecRedraw ==
    InitRedraw /\ [][NextRedraw]_vars /\ WF_vars(OnChange) /\ WF_vars(RedrawStep)

(***************************************************************************)
(* Keys pressed while a call made by check_on_key may raise, with and      *)
(* without highlighting.                                                   *)
(***************************************************************************)
InitFaults ==
    /\ Constructed
    /\ enable_syntax_highlighting \in BOOLEAN
    /\ dev_mode = FALSE
    /\ view = NewView
    /\ max_undo = DefaultCapacity

NextFaults ==
    \/ EventsLeft /\ \E e \in KeyEvents : Key(e)
    \/ EventsLeft /\ \E e \in KeyEvents, f \in DependentNames : KeyFault(e, f)
    \/ UpdatePos
    \/ EventsLeft /\ TextCall
    \/ OnChange
    \/ EventsLeft /\ Configure
    \/ RedrawStep

SpecFaults == InitFaults /\ [][NextFaults]_vars

\* The notification test tried on every raw operation of RawArgs: one
\* operation on a fresh widget, then the events it leaves to deliver.
NextClassify ==
    \/ raw_calls = 0 /\ \E args \in RawArgs, fails \in BOOLEAN : RawOp(args, fails)
    \/ OnChange
    \/ Configure
    \/ RedrawStep

SpecClassify == InitProxy /\ [][NextClassify]_vars

(***************************************************************************)
(* Helpers of the properties.                                              *)
(***************************************************************************)
\* The document text of a history state.
TextOf(h) == GetText(h.content)

\* The history after stackify has been called once per text of ts, in
\* order, on a fresh Textbox whose document holds that text at each call.
RECURSIVE RecordAll(_, _)
RecordAll(ts, cap) ==
    IF ts = <<>>
    THEN Hist(<<>>, 0, "\n")
    ELSE LET before == RecordAll(SubSeq(ts, 1, Len(ts) - 1), cap)
         IN  stackify([before EXCEPT !.content = ts[Len(ts)] \o "\n"], cap)

\* A history state as the next call finds it: the exception of the call
\* before has been reported and is gone.
Returned(h) == [h EXCEPT !.exc = "none"]

\* undo called n times in a row.
RECURSIVE UndoTimes(_, _)
UndoTimes(h, n) == IF n = 0 THEN h ELSE UndoTimes(undo(Returned(h)), n - 1)

\* Every history state some finite sequence of undo and redo calls leads to.
RECURSIVE UndoRedoClosure(_)
UndoRedoClosure(S) ==
    LET T == S \cup {Returned(undo(h)) : h \in S} \cup {Returned(redo(h)) : h \in S}
    IN  IF T = S THEN S ELSE UndoRedoClosure(T)

\* A step that records a snapshot (a key event or a direct stackify call).
Records == recorded' # recorded


(***************************************************************************)
(* C1. The stored snapshots are exactly the last min(N, capacity) recorded *)
(* texts in recording order, N being the number of stackify calls so far:  *)
(* a record at capacity drops the oldest entry only, and undo and redo     *)
(* leave the sequence as it is.                                            *)
(***************************************************************************)
C1_StackIsLastRecorded ==
    LET n == Len(recorded)
        m == Min(n, max_undo)
    IN  stack = SubSeq(recorded, n - m + 1, n)

\* More records than the capacity holds, distinct texts stored, and an undo
\* or redo call just made.
C1_Witness ==
    /\ Len(recorded) > max_undo
    /\ max_undo >= 2
    /\ stack[1] # stack[Len(stack)]
    /\ recorded[1] # stack[1]
    /\ last.op \in {"undo", "redo"}

(***************************************************************************)
(* C2. For a capacity >= 2 and N > capacity records on a fresh history,    *)
(* capacity - 1 calls of undo leave the document text equal to the oldest  *)
(* retained snapshot, the (N - capacity + 1)-th recorded text.             *)
(***************************************************************************)
C2_UndoReachesOldestRetained ==
    (max_undo >= 2 /\ Len(recorded) > max_undo) =>
        TextOf(UndoTimes(RecordAll(recorded, max_undo), max_undo - 1))
            = recorded[Len(recorded) - max_undo + 1]

(***************************************************************************)
(* C3. With the cursor strictly between 0 and the number of stored         *)
(* snapshots, undo followed immediately by redo leaves the document text   *)
(* and the cursor as they were before the undo.                            *)
(***************************************************************************)
\* The cursor a call found was strictly between 0 and the snapshot count.
C3_Between(b) == 0 < b.cursor /\ b.cursor < b.count

C3_Step ==
    (Redo /\ last.op = "undo" /\ C3_Between(last.before)) =>
        /\ GetText(content') = last.before.text
        /\ stackcursor' = last.before.cursor

C3_UndoRedoRoundTrip ==
    /\ [][C3_Step]_vars
    /\ [](C3_Between(Before) =>
            LET r == redo(Returned(undo(Here)))
            IN  TextOf(r) = GetText(content) /\ r.stackcursor = stackcursor)

\* A redo called right after an undo that found the cursor at 9 with
\* eleven snapshots stored, on a text that is none of the two snapshots
\* next to the cursor.
C3_Witness ==
    /\ last.op = "redo"
    /\ last.undone
    /\ C3_Between(last.before)
    /\ Len(stack) > stackcursor + 1
    /\ GetText(content) # stack[stackcursor]
    /\ GetText(content) # stack[stackcursor + 2]

(***************************************************************************)
(* C4. The cursor stays within the stored snapshots:                       *)
(* 0 <= stackcursor <= len(stack).                                         *)
(***************************************************************************)
C4_CursorWithinStack ==
    0 <= stackcursor /\ stackcursor <= Len(stack)

(***************************************************************************)
(* C5. A record advances the cursor by exactly one unless the cursor is    *)
(* at capacity - 1, where it stays; so the cursor never exceeds            *)
(* capacity - 1.                                                           *)
(***************************************************************************)
C5_CursorCappedAtCapacity ==
    [][Records =>
        /\ stackcursor' = IF stackcursor = max_undo - 1
                          THEN stackcursor ELSE stackcursor + 1
        /\ stackcursor' <= max_undo - 1]_vars

(***************************************************************************)
(* C6. undo with the cursor at 0 changes nothing (text, cursor, snapshots, *)
(* dirty flag); with the cursor above 0 it decrements the cursor by one    *)
(* and replaces the document text by the snapshot at the new cursor.       *)
(***************************************************************************)
C6_UndoEffect ==
    [][Undo =>
        IF stackcursor = 0
        THEN UNCHANGED <<content, stackcursor, stack, changed_since_saved>>
        ELSE /\ stackcursor' = stackcursor - 1
             /\ stackcursor' < Len(stack)
             /\ GetText(content') = stack[stackcursor' + 1]]_vars

(***************************************************************************)
(* C7. redo increments the cursor by one and restores the snapshot at the  *)
(* new cursor exactly when cursor + 1 < len(stack); otherwise it changes   *)
(* neither text, cursor nor snapshots.                                     *)
(***************************************************************************)
C7_RedoEffect ==
    [][Redo =>
        IF stackcursor + 1 < Len(stack)
        THEN /\ stackcursor' = stackcursor + 1
             /\ GetText(content') = stack[stackcursor' + 1]
             /\ stack' = stack
        ELSE UNCHANGED <<content, stackcursor, stack>>]_vars

(***************************************************************************)
(* C8. undo and redo never raise an error.                                 *)
(***************************************************************************)
C8_UndoRedoNeverRaise ==
    last.op \in {"undo", "redo"} => last.exc = "none"

(***************************************************************************)
(* C9. Every retained snapshot can be restored into the document by some   *)
(* finite sequence of undo and redo calls from the current state.          *)
(***************************************************************************)
C9_EverySnapshotRetrievable ==
    \A i \in 1..Len(stack) :
        \E h \in UndoRedoClosure({Here}) : TextOf(h) = stack[i]

(***************************************************************************)
(* C10. The dirty flag starts false; a qualifying key event on a clean     *)
(* document sets it and calls the tab updater once with "<file name> *";   *)
(* a key event on a dirty document changes neither the flag nor the tab;   *)
(* the updater is called by nothing else; and only a save acknowledgement  *)
(* resets the flag.                                                        *)
(***************************************************************************)
\* No modifier key is pressed: neither Shift (1), Control (4) nor Alt (8)
\* is in the event's state. Num Lock (16) is a lock, not a key held down.
C10_ModifierFree(e) ==
    /\ e.state % 2 = 0
    /\ (e.state \div 4) % 2 = 0
    /\ (e.state \div 8) % 2 = 0

\* A character-producing key pressed with no modifier.
C10_Qualifying(e) == C10_ModifierFree(e) /\ Printing(e)

C10_DirtyStep ==
    /\ \A e \in KeyEvents :
          Key(e) =>
            /\ (~changed_since_saved /\ C10_Qualifying(e)) =>
                  /\ changed_since_saved'
                  /\ set_properties_calls' = set_properties_calls + 1
                  /\ tab_text' = file_name \o " *"
            /\ changed_since_saved =>
                  /\ changed_since_saved'
                  /\ set_properties_calls' = set_properties_calls
                  /\ tab_text' = tab_text
    /\ (changed_since_saved /\ ~changed_since_saved') => SaveAck
    /\ set_properties_calls' # set_properties_calls =>
          (~changed_since_saved /\ changed_since_saved')

C10_DirtyFlagMachine ==
    /\ changed_since_saved = FALSE
    /\ set_properties_calls = 0
    /\ [][C10_DirtyStep]_vars

(***************************************************************************)
(* C11. A navigation-only key event (an arrow key pressed with no          *)
(* modifier: event.state 16, no character, no text change) on a clean      *)
(* document leaves the dirty flag false and does not call the tab updater. *)
(***************************************************************************)
C11_NavigationNeverDirties ==
    [][\A e \in KeyEvents :
          (Key(e) /\ e.state = PlainState /\ e.char = "" /\ ~changed_since_saved)
              => /\ ~changed_since_saved'
                 /\ set_properties_calls' = set_properties_calls]_vars

(***************************************************************************)
(* C15. Every key event handled by check_on_key stores exactly one         *)
(* snapshot, the document text without its final newline, whatever the     *)
(* modifier state, the dirty flag and the newest stored snapshot are; the  *)
(* recording leaves the document text as it is.                            *)
(***************************************************************************)
C15_Step ==
    \A e \in KeyEvents :
        Key(e) =>
            /\ Len(stack') = Min(Len(stack) + 1, max_undo)
            /\ stack'[Len(stack')] = GetText(content)
            /\ stack'[Len(stack')] \o "\n" = content
            /\ \A i \in 1..(Len(stack') - 1) :
                  stack'[i] = stack[i + Len(stack) + 1 - Len(stack')]
            /\ stackify(Here, max_undo).content = content

C15_KeyRecordsOnce == [][C15_Step]_vars

\* Two key events in a row with a modifier held and no text change: the
\* second stored the same text again, the flag still false.
C15_Witness ==
    /\ last.op = "key"
    /\ keys = 2
    /\ Len(recorded) = 2
    /\ max_undo >= 2
    /\ stack = <<"", "">>
    /\ ~changed_since_saved

(***************************************************************************)
(* C16. Each key event schedules exactly one single-shot update_pos        *)
(* callback; a callback runs exactly once, as a handler of its own after   *)
(* the key handler that scheduled it and never within another handler, and *)
(* is never cancelled or re-armed: nothing but a key event adds a waiting  *)
(* callback, nothing but its run takes one away, the callbacks run plus    *)
(* the callbacks waiting always equal the key events handled, and the      *)
(* callback of the k-th key event does run.                                *)
(***************************************************************************)
C16_Step ==
    /\ \A e \in KeyEvents :
          Key(e) => /\ after_pending' = after_pending + 1
                    /\ pos_updates' = pos_updates
    /\ after_pending' > after_pending => \E e \in KeyEvents : Key(e)
    /\ after_pending' < after_pending =>
          /\ UpdatePos
          /\ after_pending' = after_pending - 1
    /\ pos_updates' # pos_updates =>
          /\ UpdatePos
          /\ pos_updates' = pos_updates + 1
          /\ keys' = keys
          /\ redraw_pc = "idle" /\ redraw_pc' = "idle"

C16_OneRefreshPerKey ==
    /\ [](pos_updates + after_pending = keys)
    /\ [][C16_Step]_vars
    /\ \A k \in 1..MaxKeys : (keys >= k) ~> (pos_updates >= k)

\* Two key events were handled before either callback ran, so two
\* callbacks were waiting at once; one has now run, with a <<Change>> still
\* queued, and the other is still waiting.
C16_Witness ==
    /\ keys = 2
    /\ last.op = "update_pos"
    /\ last.waiting = 2
    /\ pos_updates = 1
    /\ after_pending = 1
    /\ change_queue # <<>>

(***************************************************************************)
(* C19. Right after a snapshot is recorded there is nothing to redo: a     *)
(* redo called then returns without an error and changes neither the       *)
(* document nor the cursor.                                                *)
(***************************************************************************)
C19_NothingToRedoAfterRecord ==
    [][Records =>
          redo(Hist(stack', stackcursor', content'))
              = Hist(stack', stackcursor', content')]_vars

(***************************************************************************)
(* C20. undo and redo change nothing but the document text and the         *)
(* cursor: not the dirty flag, not the tab label, no updater call, no      *)
(* snapshot stored or removed, no callback scheduled.                      *)
(***************************************************************************)
C20_UndoRedoFrame ==
    [][(Undo \/ Redo) =>
          UNCHANGED <<changed_since_saved, file_name, tab_text,
                      set_properties_calls, stack, recorded, after_pending,
                      keys, syntax_calls>>]_vars

\* An undo called with snapshots stored and the cursor above 0, on a
\* document that is not dirty.
C20_Witness ==
    /\ last.op = "undo"
    /\ stackcursor > 0
    /\ Len(stack) >= 2
    /\ stack[1] # stack[2]
    /\ ~changed_since_saved

(***************************************************************************)
(* C12. The proxy's test yields a change notification exactly when the     *)
(* operation's first word is insert, replace or delete, or its first three *)
(* words are mark set insert, or its first two words are xview or yview    *)
(* followed by moveto or scroll.                                           *)
(***************************************************************************)
C12_Word(args, k) == IF k <= Len(args) THEN args[k] ELSE ""

C12_Accepted(args) ==
    \/ C12_Word(args, 1) \in {"insert", "replace", "delete"}
    \/ /\ C12_Word(args, 1) = "mark"
       /\ C12_Word(args, 2) = "set"
       /\ C12_Word(args, 3) = "insert"
    \/ /\ C12_Word(args, 1) \in {"xview", "yview"}
       /\ C12_Word(args, 2) \in {"moveto", "scroll"}

\* The proxy has reached its test: the operation did not leave it at line 289.
C12_TestReached == last.op = "raw" /\ last.exc # "TclError"

C12_ClassifyExact ==
    last.op = "raw" =>
        /\ Classify(raw.args) <=> C12_Accepted(raw.args)
        /\ C12_TestReached => (raw.notified <=> C12_Accepted(raw.args))
        /\ raw.notified <=> (change_queue # <<>>)

\* The widget has inserted the word mark at the insert mark and a
\* notification is queued.
C12_Witness ==
    /\ raw.args = <<"insert", "insert", "mark">>
    /\ raw.executed
    /\ raw.notified
    /\ content = "mark\n"
    /\ change_queue = <<1>>

(***************************************************************************)
(* C13. cf.dev_mode decides what a failing raw operation does: with it the *)
(* error is caught and logged and the proxy returns without raising;       *)
(* without it the original error leaves the proxy.                         *)
(***************************************************************************)
C13_FaultByMode ==
    (last.op = "raw" /\ raw.fails) =>
        IF dev_mode
        THEN raw.logged /\ last.exc = "none"
        ELSE ~raw.logged /\ last.exc = "TclError"

(***************************************************************************)
(* C17 as stated. Every raw operation the test accepts is executed by the  *)
(* widget and then queues exactly one notification; one it rejects queues  *)
(* none.                                                                   *)
(***************************************************************************)
C17_EveryAcceptedNotifies ==
    [][\A args \in SampleOps, fails \in BOOLEAN :
          RawOp(args, fails) =>
              IF C12_Accepted(args)
              THEN /\ raw'.executed
                   /\ change_queue' = Append(change_queue, widget_ops')
              ELSE change_queue' = change_queue]_vars

(***************************************************************************)
(* C17 amended. Every raw operation that the test accepts and that the     *)
(* widget executes without error is executed first and then queues exactly *)
(* one notification, which eventually starts one redraw of the line        *)
(* numbers that sees the widget as it is after the operation; a raw        *)
(* operation the test rejects queues no notification and starts no redraw. *)
(***************************************************************************)
\* The line numbers of the lines the view v displays.
C17_LineNumbers(v) ==
    [k \in 1..Min(v.height, v.nlines - v.top + 1) |-> ToString(v.top + k - 1)]

\* The redraw that has started last.
C17_Redraw == redraws[Len(redraws)]

C17_Step ==
    /\ \A args \in SampleOps :
          (RawOp(args, FALSE) /\ C12_Accepted(args)) =>
              /\ raw'.executed
              /\ widget_ops' = widget_ops + 1
              /\ content' = WidgetExecute(content, selection, args)
              /\ view' = Displayed(view, selection, args)
              /\ change_queue' = Append(change_queue, widget_ops')
              /\ redraws' = redraws
    /\ \A args \in SampleOps, fails \in BOOLEAN :
          (RawOp(args, fails) /\ ~C12_Accepted(args)) =>
              /\ change_queue' = change_queue
              /\ redraws' = redraws
    /\ Len(change_queue') < Len(change_queue) =>
          /\ Len(change_queue') = Len(change_queue) - 1
          /\ Len(redraws') = Len(redraws) + 1
          /\ redraws'[Len(redraws')].by = "<<Change>>"
          /\ redraws'[Len(redraws')].event \in {change_queue[k] : k \in 1..Len(change_queue)}
    /\ (redraws' # redraws /\ redraws'[Len(redraws')].by = "<<Change>>") =>
          /\ Len(change_queue') = Len(change_queue) - 1
          /\ Len(redraws') = Len(redraws) + 1
    /\ (RedrawStep /\ redraw_pc' = "idle" /\ C17_Redraw.by = "<<Change>>") =>
          /\ C17_Redraw.seen >= C17_Redraw.event
          /\ [k \in 1..Len(labels) |-> labels[k].text] = C17_LineNumbers(view)

C17_NotifyThenRedraw ==
    /\ [][C17_Step]_vars
    /\ [](\A k \in 1..Len(change_queue) : change_queue[k] <= widget_ops)
    /\ (change_queue # <<>>) ~> (change_queue = <<>> /\ redraw_pc = "idle")

\* A line was added and the window scrolled to it, both notifications
\* were queued before either was delivered, and each has had its redraw:
\* the line numbers show line 2.
C17_Witness ==
    /\ raw_calls = 2
    /\ change_queue = <<>>
    /\ redraw_pc = "idle"
    /\ redraws = <<[by |-> "<<Change>>", event |-> 1, seen |-> 2],
                   [by |-> "<<Change>>", event |-> 2, seen |-> 6]>>
    /\ view.top = 2
    /\ Len(labels) = 1
    /\ labels[1].text = "2"

(***************************************************************************)
(* C18. A redraw ends for every document and window; it first discards     *)
(* the labels there were, then makes one label per displayed line from the *)
(* first visible line on, stopping at the first line that is not           *)
(* displayed; a label shows its line's number, in size 7 when the number   *)
(* has more than 4 digits and in size 10 otherwise.                        *)
(***************************************************************************)
\* The lines the widget displays.
C18_Displayed(v) == Min(v.height, v.nlines - v.top + 1)

C18_ExpectedLabels(v) ==
    [k \in 1..C18_Displayed(v) |->
        [x |-> 2, y |-> highlightthickness + border + pady + (k - 1) * v.px - 2,
         text |-> ToString(v.top + k - 1),
         size |-> IF v.top + k - 1 >= 10000 THEN 7 ELSE 10]]

C18_Step ==
    /\ (OnChange \/ Configure) => labels' = <<>>
    /\ (RedrawStep /\ redraw_pc' = "idle") => labels = C18_ExpectedLabels(view)
    /\ (RedrawStep /\ redraw_pc' = "loop") =>
          /\ Len(labels') = Len(labels) + 1
          /\ Len(labels') <= C18_Displayed(view)

C18_RedrawTerminates ==
    /\ [][C18_Step]_vars
    /\ (redraw_pc = "loop") ~> (redraw_pc = "idle")

\* Document was loaded, the window brought to its long line, scrolled
\* halfway along it and down a line, every change has had its redraw, and
\* the last one ended with the labels 9999 (size 10) and 10000 (size 7).
C18_Witness ==
    /\ redraw_pc = "idle"
    /\ raw_calls = 4
    /\ change_queue = <<>>
    /\ view.top = 9999
    /\ view.left = 0
    /\ Len(redraws) >= 3
    /\ Len(labels) = 2
    /\ labels[1].text = "9999" /\ labels[1].size = 10 /\ labels[1].y = 4
    /\ labels[2].text = "10000" /\ labels[2].size = 7 /\ labels[2].y = 21

(***************************************************************************)
(* C14. When a call check_on_key makes for a key raises, the calls that    *)
(* come after it for that key still run, and no error leaves the handler.  *)
(***************************************************************************)
C14_FaultIsolation ==
    [][\A e \in KeyEvents, f \in DependentNames :
          KeyFault(e, f) =>
              /\ f # "after" => after_pending' = After(after_pending)
              /\ f # "stackify" => recorded' = Append(recorded, GetText(content))
              /\ (enable_syntax_highlighting /\ f \notin {"tagHighlight", "scan"}) =>
                    syntax_calls' = syntax_calls + 2
              /\ last'.exc = "none"]_vars
====
